---- MODULE Spec2Model ----
(***************************************************************************)
(* Model of seed_db.py: the seeder that fills local.db (SQLite) with a     *)
(* fixed catalog of categories and sellers and 1184 generated products.    *)
(*                                                                         *)
(* The store is modelled twice: `disk` is the committed database file and  *)
(* `conn` is what the open connection sees (the file plus the rows of its  *)
(* open transaction).  Python's sqlite3 module, opened with its default    *)
(* isolation level, runs DDL in autocommit mode and opens a transaction    *)
(* implicitly before the first INSERT; only conn.commit() writes the       *)
(* transaction to the file.  A process that dies, or a statement that      *)
(* raises, leaves the file as it was at the last commit.                   *)
(*                                                                         *)
(* Timestamps are abstract ticks of a monotone clock: the real values      *)
(* (milliseconds since the epoch) do not fit TLC's integers and    *)
(* the program only stores them.                                           *)
(***************************************************************************)
EXTENDS Integers, Sequences, FiniteSets, TLC

VARIABLES
    pc,            \* position of the process in seed(); "idle" = no process
    disk,          \* committed contents of local.db
    conn,          \* contents as seen through the open connection
    inTx,          \* the connection has an open (uncommitted) transaction
    clock,         \* wall clock
    now,           \* seed(): now (0 = not captured yet)
    k,             \* seed(): position of the running for loop
    category_map,  \* seed(): category_map
    products,      \* seed(): products
    before,        \* history: disk when the current/last run connected
    runs,          \* history: number of runs started
    completed,     \* history: number of runs that committed
    outcome,       \* history: "none" | "running" | "committed" | "failed"
    failedAt       \* history: pc at which the last failed run died

vars == <<pc, disk, conn, inTx, clock, now, k, category_map, products,
          before, runs, completed, outcome, failedAt>>

locals == <<now, k, category_map, products>>
history == <<before, runs, completed, outcome, failedAt>>

(***************************************************************************)
(* Bounds of the exploration.                                              *)
(***************************************************************************)
MaxRuns == 2
MaxClock == 2

(***************************************************************************)
(* Fixed input data.                                                       *)
(***************************************************************************)
CATEGORIES ==
    << <<"Shoes", "Footwear and sneakers">>,
       <<"Fashion", "Clothing and apparel">>,
       <<"Furniture", "Home furniture and decor">>,
       <<"Electronics", "Electronic devices">>,
       <<"Accessories", "Fashion accessories">>,
       <<"Home Decor", "Home decoration items">>,
       <<"Jewelry", "Jewelry and watches">>,
       <<"Watches", "Timepieces">> >>

\* rating is a REAL in the source; it is kept here in tenths (4.5 -> 45).
SELLERS ==
    << <<1, "Nairobi Streetwear Hub", "Premium streetwear and sneakers", "254712345678", 45, 0>>,
       <<1, "Westlands Fashion Co", "Trendy fashion and accessories", "254723456789", 42, 0>>,
       <<1, "Gikomba Rare Finds", "Vintage and rare items", "254734567890", 48, 0>>,
       <<1, "Kilimani Tech & Home", "Electronics and home items", "254745678901", 40, 0>>,
       <<1, "Mombasa Road Furniture", "Quality furniture for homes", "254756789012", 43, 0>> >>

NumProducts == 1184

(***************************************************************************)
(* str() of a non-negative integer, digit by digit.                        *)
(***************************************************************************)
Digit == <<"0", "1", "2", "3", "4", "5", "6", "7", "8", "9">>

RECURSIVE Str(_)
Str(n) == IF n < 10 THEN Digit[n + 1] ELSE Str(n \div 10) \o Digit[(n % 10) + 1]

(***************************************************************************)
(* The store.                                                              *)
(***************************************************************************)
EmptyStore ==
    [tables |-> {},
     categories |-> <<>>,
     sellers |-> <<>>,
     products |-> <<>>,
     sqlite_sequence |-> [categories |-> 0, sellers |-> 0, products |-> 0]]

\* CREATE TABLE IF NOT EXISTS t: nothing happens to an existing table.
CreateTableIfNotExists(db, t) == [db EXCEPT !.tables = @ \cup {t}]

\* Variant: a connection opened in autocommit mode (isolation_level=None)
\* never issues BEGIN by itself.
BeginsNoTransaction(kind) == FALSE

\* Python's sqlite3 (default isolation level) issues BEGIN before a
\* data-modifying statement and before nothing else.
BeginsTransaction(kind) == kind \in {"INSERT", "UPDATE", "DELETE", "REPLACE"}

\* Variant: every statement is written through to the file.
PersistAtOnce(d, c, tx) == c

\* The file after a statement took the connection's view to c: a statement
\* outside a transaction is committed at once, one inside is not.
Persist(d, c, tx) == IF tx THEN d ELSE c

\* Variant: the categories table without UNIQUE on name.
InsertCategoryNoUnique(db, name, desc, t) ==
    LET id == db.sqlite_sequence.categories + 1
        conflict == \E j \in 1..Len(db.categories) : db.categories[j].id = id
        row == [id |-> id, name |-> name, description |-> desc, createdAt |-> t]
    IN  [db EXCEPT !.sqlite_sequence.categories = id,
                   !.categories = IF conflict THEN @ ELSE Append(@, row)]

\* Variant: INSERT OR REPLACE, which deletes the conflicting rows and
\* stores the new one.
InsertOrReplaceCategory(db, name, desc, t) ==
    LET id == db.sqlite_sequence.categories + 1
        row == [id |-> id, name |-> name, description |-> desc, createdAt |-> t]
        kept == SelectSeq(db.categories, LAMBDA r : r.id # id /\ r.name # name)
    IN  [db EXCEPT !.sqlite_sequence.categories = id,
                   !.categories = Append(kept, row)]

\* INSERT OR IGNORE INTO categories (name, description, createdAt).
\* AUTOINCREMENT draws the rowid from sqlite_sequence before the
\* constraints are checked, so an ignored row still uses up a rowid.
\* Constraints: PRIMARY KEY (id), UNIQUE (name).
InsertOrIgnoreCategory(db, name, desc, t) ==
    LET id == db.sqlite_sequence.categories + 1
        conflict == \E j \in 1..Len(db.categories) :
                        \/ db.categories[j].id = id
                        \/ db.categories[j].name = name
        row == [id |-> id, name |-> name, description |-> desc, createdAt |-> t]
    IN  [db EXCEPT !.sqlite_sequence.categories = id,
                   !.categories = IF conflict THEN @ ELSE Append(@, row)]

\* INSERT OR IGNORE INTO sellers (...).  Constraints: PRIMARY KEY (id) only.
InsertOrIgnoreSeller(db, s, t) ==
    LET id == db.sqlite_sequence.sellers + 1
        conflict == \E j \in 1..Len(db.sellers) : db.sellers[j].id = id
        row == [id |-> id, userId |-> s[1], storeName |-> s[2],
                description |-> s[3], whatsappPhone |-> s[4], rating |-> s[5],
                totalSales |-> s[6], createdAt |-> t, updatedAt |-> t]
    IN  [db EXCEPT !.sqlite_sequence.sellers = id,
                   !.sellers = IF conflict THEN @ ELSE Append(@, row)]

\* SELECT id, name FROM categories, folded into {name: id}.
SelectCategoryMap(db) ==
    [n \in {db.categories[j].name : j \in 1..Len(db.categories)} |->
        db.categories[CHOOSE j \in 1..Len(db.categories) :
                          db.categories[j].name = n].id]

(***************************************************************************)
(* One generated product, for index i of range(1184).                      *)
(***************************************************************************)
category_names == [j \in 1..Len(CATEGORIES) |-> CATEGORIES[j][1]]

\* Variant: the category drawn with the length of the wrong list.
ProductCategoryNameBySellers(i) == category_names[(i % Len(SELLERS)) + 1]

ProductCategoryName(i) == category_names[(i % Len(category_names)) + 1]

\* Variant: a 0-based seller identifier.
ProductSellerIdZeroBased(i) == i % Len(SELLERS)

ProductSellerId(i) == (i % Len(SELLERS)) + 1

ProductName(i) == ProductCategoryName(i) \o " Item " \o Str(i + 1)

ProductDescription(i) ==
    "High-quality " \o ProductCategoryName(i)
        \o " from authentic Kenyan markets. Perfect for your needs."

\* Variant: the price cycling with the stock's period.
ProductPriceStockPeriod(i) == Str(1000 + (i % 20) * 100)

ProductPrice(i) == Str(1000 + (i % 50) * 100)

\* 1500000000000 + i * 1000000 = (1500000 + i) * 1000000, written without
\* leaving TLC's 32-bit integers.
ProductImageUrl(i) ==
    "https://images.unsplash.com/photo-" \o Str(1500000 + i) \o "000000"
        \o "?w=500&h=500&fit=crop"

ProductStock(i) == 5 + (i % 20)

Product(i, cmap, t) ==
    [sellerId |-> ProductSellerId(i),
     categoryId |-> cmap[ProductCategoryName(i)],
     name |-> ProductName(i),
     description |-> ProductDescription(i),
     price |-> ProductPrice(i),
     imageUrl |-> ProductImageUrl(i),
     stock |-> ProductStock(i),
     source |-> "nairobi_market",
     createdAt |-> t,
     updatedAt |-> t]

\* Variant: a loop that stops one index early.
GenerateProductsShort(cmap, t) == [j \in 1..(NumProducts - 1) |-> Product(j - 1, cmap, t)]

\* for i in range(1184): products.append(...)
GenerateProducts(cmap, t) == [j \in 1..NumProducts |-> Product(j - 1, cmap, t)]

\* Variant: INSERT OR IGNORE into a products table with UNIQUE on name.
InsertProductsOrIgnore(db, rows) ==
    LET base == db.sqlite_sequence.products
        taken == {db.products[j].name : j \in 1..Len(db.products)}
        fresh == SelectSeq(rows, LAMBDA r : r.name \notin taken)
        stored == [j \in 1..Len(fresh) |->
                      [id |-> base + j,
                       sellerId |-> fresh[j].sellerId,
                       categoryId |-> fresh[j].categoryId,
                       name |-> fresh[j].name,
                       description |-> fresh[j].description,
                       price |-> fresh[j].price,
                       imageUrl |-> fresh[j].imageUrl,
                       stock |-> fresh[j].stock,
                       source |-> fresh[j].source,
                       createdAt |-> fresh[j].createdAt,
                       updatedAt |-> fresh[j].updatedAt]]
    IN  [db EXCEPT !.sqlite_sequence.products = base + Len(rows),
                   !.products = @ \o stored]

\* executemany("INSERT INTO products (...)", rows): every row gets the next
\* AUTOINCREMENT rowid; the table has no constraint a generated row can break.
InsertProducts(db, rows) ==
    LET base == db.sqlite_sequence.products
        stored == [j \in 1..Len(rows) |->
                      [id |-> base + j,
                       sellerId |-> rows[j].sellerId,
                       categoryId |-> rows[j].categoryId,
                       name |-> rows[j].name,
                       description |-> rows[j].description,
                       price |-> rows[j].price,
                       imageUrl |-> rows[j].imageUrl,
                       stock |-> rows[j].stock,
                       source |-> rows[j].source,
                       createdAt |-> rows[j].createdAt,
                       updatedAt |-> rows[j].updatedAt]]
    IN  [db EXCEPT !.sqlite_sequence.products = base + Len(rows),
                   !.products = @ \o stored]

(***************************************************************************)
(* The process.                                                            *)
(***************************************************************************)
NoMap == [n \in {} |-> 0]

Init ==
    /\ pc = "idle"
    /\ disk = EmptyStore
    /\ conn = EmptyStore
    /\ inTx = FALSE
    /\ clock = 1
    /\ now = 0
    /\ k = 0
    /\ category_map = NoMap
    /\ products = <<>>
    /\ before = EmptyStore
    /\ runs = 0
    /\ completed = 0
    /\ outcome = "none"
    /\ failedAt = "idle"

\* Time passes.
Tick ==
    /\ clock < MaxClock
    /\ clock' = clock + 1
    /\ UNCHANGED <<pc, disk, conn, inTx, locals, history>>

\* conn = sqlite3.connect(db_path); cursor = conn.cursor()
Connect ==
    /\ pc = "idle"
    /\ runs < MaxRuns
    /\ pc' = "create_categories"
    /\ conn' = disk
    /\ inTx' = FALSE
    /\ before' = disk
    /\ runs' = runs + 1
    /\ outcome' = "running"
    /\ failedAt' = "idle"
    /\ UNCHANGED <<disk, clock, locals, completed>>

\* A DDL statement: runs in the open transaction if there is one, and is
\* committed at once otherwise.
CreateTable(at, t, next) ==
    /\ pc = at
    /\ conn' = CreateTableIfNotExists(conn, t)
    /\ disk' = Persist(disk, conn', inTx)
    /\ pc' = next
    /\ UNCHANGED <<inTx, clock, locals, history>>

CreateCategoriesTable == CreateTable("create_categories", "categories", "create_sellers")

CreateSellersTable == CreateTable("create_sellers", "sellers", "create_products")

CreateProductsTable == CreateTable("create_products", "products", "capture_now")

\* now = int(time.time() * 1000)
CaptureNow ==
    /\ pc = "capture_now"
    /\ now' = clock
    /\ k' = 1
    /\ pc' = "seed_categories"
    /\ UNCHANGED <<disk, conn, inTx, clock, category_map, products, history>>

\* for name, desc in CATEGORIES: cursor.execute("INSERT OR IGNORE ...")
SeedCategory ==
    /\ pc = "seed_categories"
    /\ k <= Len(CATEGORIES)
    /\ "categories" \in conn.tables
    /\ inTx' = (inTx \/ BeginsTransaction("INSERT"))
    /\ conn' = InsertOrIgnoreCategory(conn, CATEGORIES[k][1], CATEGORIES[k][2], now)
    /\ disk' = Persist(disk, conn', inTx')
    /\ k' = IF k = Len(CATEGORIES) THEN 1 ELSE k + 1
    /\ pc' = IF k = Len(CATEGORIES) THEN "seed_sellers" ELSE pc
    /\ UNCHANGED <<clock, now, category_map, products, history>>

\* for ... in SELLERS: cursor.execute("INSERT OR IGNORE INTO sellers ...")
SeedSeller ==
    /\ pc = "seed_sellers"
    /\ k <= Len(SELLERS)
    /\ "sellers" \in conn.tables
    /\ inTx' = (inTx \/ BeginsTransaction("INSERT"))
    /\ conn' = InsertOrIgnoreSeller(conn, SELLERS[k], now)
    /\ disk' = Persist(disk, conn', inTx')
    /\ k' = IF k = Len(SELLERS) THEN 0 ELSE k + 1
    /\ pc' = IF k = Len(SELLERS) THEN "select_categories" ELSE pc
    /\ UNCHANGED <<clock, now, category_map, products, history>>

\* cursor.execute("SELECT id, name FROM categories"); category_map = {...}
SelectCategories ==
    /\ pc = "select_categories"
    /\ "categories" \in conn.tables
    /\ category_map' = SelectCategoryMap(conn)
    /\ pc' = "generate"
    /\ UNCHANGED <<disk, conn, inTx, clock, now, k, products, history>>

\* The loop that builds the list `products`; category_map[cat_name] raises
\* KeyError for a missing name (then the run dies: see Fail).
GenerateAll ==
    /\ pc = "generate"
    /\ \A j \in 1..Len(category_names) : category_names[j] \in DOMAIN category_map
    /\ products' = GenerateProducts(category_map, now)
    /\ pc' = "executemany"
    /\ UNCHANGED <<disk, conn, inTx, clock, now, k, category_map, history>>

\* cursor.executemany("INSERT INTO products ...", products)
ExecuteMany ==
    /\ pc = "executemany"
    /\ "products" \in conn.tables
    /\ inTx' = (inTx \/ BeginsTransaction("INSERT"))
    /\ conn' = InsertProducts(conn, products)
    /\ disk' = Persist(disk, conn', inTx')
    /\ pc' = "commit"
    /\ UNCHANGED <<clock, locals, history>>

\* conn.commit()
Commit ==
    /\ pc = "commit"
    /\ disk' = conn
    /\ inTx' = FALSE
    /\ completed' = completed + 1
    /\ outcome' = "committed"
    /\ pc' = "close"
    /\ UNCHANGED <<conn, clock, locals, before, runs, failedAt>>

\* conn.close(), and the process ends.
Close ==
    /\ pc = "close"
    /\ pc' = "idle"
    /\ conn' = disk
    /\ inTx' = FALSE
    /\ now' = 0
    /\ k' = 0
    /\ category_map' = NoMap
    /\ products' = <<>>
    /\ UNCHANGED <<disk, clock, history>>

\* A statement raises (disk full, locked file, ...) or the process is
\* killed: nothing is caught, the open transaction is never committed.
Fail ==
    /\ pc # "idle"
    /\ failedAt' = pc
    /\ outcome' = IF pc = "close" THEN outcome ELSE "failed"
    /\ pc' = "idle"
    /\ conn' = disk
    /\ inTx' = FALSE
    /\ now' = 0
    /\ k' = 0
    /\ category_map' = NoMap
    /\ products' = <<>>
    /\ UNCHANGED <<disk, clock, before, runs, completed>>

Next ==
    \/ Tick
    \/ Connect
    \/ CreateCategoriesTable
    \/ CreateSellersTable
    \/ CreateProductsTable
    \/ CaptureNow
    \/ SeedCategory
    \/ SeedSeller
    \/ SelectCategories
    \/ GenerateAll
    \/ ExecuteMany
    \/ Commit
    \/ Close
    \/ Fail

Spec == Init /\ [][Next]_vars

(***************************************************************************)
(* Vocabulary of the properties.                                           *)
(***************************************************************************)
\* The 8 category names in their input order, written out.
CategoryOrder ==
    <<"Shoes", "Fashion", "Furniture", "Electronics",
      "Accessories", "Home Decor", "Jewelry", "Watches">>

\* The 50 price points 1000, 1100, ..., 5900 as decimal strings, written
\* out: PricePoints[n + 1] is the decimal string of 1000 + n * 100.
PricePoints ==
    <<"1000", "1100", "1200", "1300", "1400", "1500", "1600", "1700", "1800", "1900",
      "2000", "2100", "2200", "2300", "2400", "2500", "2600", "2700", "2800", "2900",
      "3000", "3100", "3200", "3300", "3400", "3500", "3600", "3700", "3800", "3900",
      "4000", "4100", "4200", "4300", "4400", "4500", "4600", "4700", "4800", "4900",
      "5000", "5100", "5200", "5300", "5400", "5500", "5600", "5700", "5800", "5900">>

RowsOf(table) == {table[j] : j \in 1..Len(table)}

NamesOf(table) == {table[j].name : j \in 1..Len(table)}

IdsOf(table) == {table[j].id : j \in 1..Len(table)}

StoreNamesOf(table) == {table[j].storeName : j \in 1..Len(table)}

SameRows(a, b) ==
    /\ a.categories = b.categories
    /\ a.sellers = b.sellers
    /\ a.products = b.products

NoRows(db) == db.categories = <<>> /\ db.sellers = <<>> /\ db.products = <<>>

\* The run has committed and has not ended yet.
JustCommitted == pc = "close" /\ outcome = "committed"

\* The seller phase is over, the bulk insert has not run.
AfterSellerPhase == {"select_categories", "generate", "executemany"}

\* The round-robin rule for the row generated at index i, against the
\* category table `cats`.
RoundRobin(p, i, cats) ==
    /\ p.sellerId = (i % 5) + 1
    /\ \E c \in RowsOf(cats) : c.id = p.categoryId /\ c.name = CategoryOrder[(i % 8) + 1]

PriceAndStock(p, i) ==
    /\ p.price = PricePoints[(i % 50) + 1]
    /\ p.stock = 5 + (i % 20)
    /\ p.stock \in 5..24

Resolves(p, db) ==
    /\ p.sellerId \in IdsOf(db.sellers)
    /\ p.categoryId \in IdsOf(db.categories)

(***************************************************************************)
(* C1: one successful run of seed() against a store without rows ends      *)
(* with exactly 8 categories, 5 sellers and 1184 products.                 *)
(***************************************************************************)
C1_EmptyStoreCounts ==
    (JustCommitted /\ NoRows(before)) =>
        /\ Len(disk.categories) = 8
        /\ Len(disk.sellers) = 5
        /\ Len(disk.products) = 1184

C1_Witness ==
    /\ JustCommitted
    /\ before = EmptyStore
    /\ Len(disk.products) = 1184

(***************************************************************************)
(* C2: category names are unique in every state, committed or seen by the  *)
(* connection, and a store that held the 8 fixed categories when a run     *)
(* connected holds exactly 8 categories during and after that run.         *)
(***************************************************************************)
C2_CategoryNamesUnique ==
    /\ Cardinality(NamesOf(disk.categories)) = Len(disk.categories)
    /\ Cardinality(NamesOf(conn.categories)) = Len(conn.categories)
    /\ (NamesOf(before.categories) = RowsOf(CategoryOrder)) =>
           /\ Len(before.categories) = 8
           /\ Len(conn.categories) = 8
           /\ Len(disk.categories) = 8

C2_Witness ==
    /\ JustCommitted
    /\ NamesOf(before.categories) = RowsOf(CategoryOrder)
    /\ Len(disk.categories) = 8
    /\ disk.sqlite_sequence.categories = 16

(***************************************************************************)
(* C3: the row generated at index i has the id of the category named       *)
(* CategoryOrder[i mod 8] and sellerId (i mod 5) + 1, in the list built by *)
(* the run and in the stored table; index 0 is "Shoes Item 1" of category  *)
(* Shoes and seller 1, index 1183 is of category Watches and seller 4.     *)
(***************************************************************************)
C3_RoundRobin ==
    /\ \A j \in 1..Len(products) : RoundRobin(products[j], j - 1, conn.categories)
    /\ \A j \in 1..Len(disk.products) :
           RoundRobin(disk.products[j], (disk.products[j].id - 1) % 1184, disk.categories)
    /\ products # <<>> =>
           /\ Len(products) = 1184
           /\ products[1].name = "Shoes Item 1"
           /\ products[1].sellerId = 1
           /\ products[1].categoryId = category_map["Shoes"]
           /\ products[1184].name = "Watches Item 1184"
           /\ products[1184].sellerId = 4
           /\ products[1184].categoryId = category_map["Watches"]

C3_Witness ==
    /\ pc = "close"
    /\ Len(products) = 1184
    /\ Len(disk.products) = 2368
    /\ disk.products[2368].sellerId = 4

(***************************************************************************)
(* C4: the row generated at index i has price 1000 + (i mod 50) * 100, as  *)
(* a decimal string, and stock 5 + (i mod 20), which lies in 5..24; index  *)
(* 0 has price "1000" and stock 5, index 1183 price "4300" and stock 8.    *)
(***************************************************************************)
C4_PriceAndStock ==
    /\ \A j \in 1..Len(products) : PriceAndStock(products[j], j - 1)
    /\ \A j \in 1..Len(disk.products) :
           PriceAndStock(disk.products[j], (disk.products[j].id - 1) % 1184)
    /\ products # <<>> =>
           /\ products[1].price = "1000"
           /\ products[1].stock = 5
           /\ products[1184].price = "4300"
           /\ products[1184].stock = 8

C4_Witness ==
    /\ pc = "close"
    /\ Len(disk.products) = 1184
    /\ disk.products[1184].price = "4300"
    /\ disk.products[50].price = "5900"
    /\ disk.products[20].stock = 24

(***************************************************************************)
(* C5: referential integrity: every product row, committed or seen by the  *)
(* connection, names the id of an existing seller row and of an existing   *)
(* category row.                                                           *)
(***************************************************************************)
C5_ReferentialIntegrity ==
    /\ \A j \in 1..Len(disk.products) : Resolves(disk.products[j], disk)
    /\ \A j \in 1..Len(conn.products) : Resolves(conn.products[j], conn)

C5_Witness ==
    /\ pc = "idle"
    /\ completed = 2
    /\ Len(disk.products) = 2368
    /\ disk.products[2368].categoryId = 8

(***************************************************************************)
(* C6: every committed run appends exactly 1184 product rows to whatever   *)
(* the table held: the count is 1184 times the number of committed runs.   *)
(***************************************************************************)
C6_AppendsFullBatch ==
    /\ Len(disk.products) = 1184 * completed
    /\ JustCommitted => Len(disk.products) = Len(before.products) + 1184

C6_Witness ==
    /\ JustCommitted
    /\ Len(before.products) = 1184
    /\ Len(disk.products) = 2368

(***************************************************************************)
(* C7: a run on a store that already holds the 5 fixed sellers leaves the  *)
(* seller count at 5 and no two seller rows with the same store name.      *)
(***************************************************************************)
C7_SellersInsertedOnce ==
    (JustCommitted /\ Len(before.sellers) = 5) =>
        /\ Len(disk.sellers) = 5
        /\ Cardinality(StoreNamesOf(disk.sellers)) = Len(disk.sellers)

(***************************************************************************)
(* C8: a run that dies before its commit persists none of its rows: the    *)
(* committed categories, sellers and products are those of before the run. *)
(***************************************************************************)
C8_AllOrNothing ==
    (pc = "idle" /\ outcome = "failed") => SameRows(disk, before)

C8_Witness ==
    /\ pc = "idle"
    /\ outcome = "failed"
    /\ failedAt = "commit"
    /\ "products" \in disk.tables
    /\ NoRows(disk)

(***************************************************************************)
(* C9 as stated: category and seller inserts are committed as they         *)
(* execute, so after the seller phase and before the bulk insert the       *)
(* committed store holds the run's categories and sellers (and none of     *)
(* its products), and so does the store a crash at that point leaves.      *)
(***************************************************************************)
C9_CommittedIndividually ==
    /\ pc \in AfterSellerPhase =>
           /\ disk.categories = conn.categories
           /\ disk.sellers = conn.sellers
           /\ disk.products = before.products
    /\ (pc = "idle" /\ outcome = "failed" /\ failedAt \in AfterSellerPhase) =>
           /\ RowsOf(CategoryOrder) \subseteq NamesOf(disk.categories)
           /\ Len(disk.sellers) = Len(before.sellers) + 5
           /\ disk.products = before.products

(***************************************************************************)
(* C9 amended: category and seller inserts run in the transaction the      *)
(* first INSERT opens and are not committed before the final commit: after *)
(* the seller phase and before the bulk insert the run's categories and    *)
(* sellers are seen by the connection only, and the committed rows, also   *)
(* those a crash at that point leaves, are the rows of before the run.     *)
(***************************************************************************)
C9_NothingCommittedBeforeCommit ==
    /\ pc \in AfterSellerPhase =>
           /\ inTx
           /\ RowsOf(CategoryOrder) \subseteq NamesOf(conn.categories)
           /\ Len(conn.sellers) = Len(before.sellers) + 5
           /\ SameRows(disk, before)
    /\ (pc = "idle" /\ outcome = "failed" /\ failedAt \in AfterSellerPhase) =>
           /\ disk.categories = before.categories
           /\ disk.sellers = before.sellers
           /\ disk.products = before.products

C9_Witness ==
    /\ pc = "idle"
    /\ outcome = "failed"
    /\ failedAt = "generate"
    /\ disk.tables = {"categories", "sellers", "products"}
    /\ disk.categories = <<>>
    /\ disk.sellers = <<>>

(***************************************************************************)
(* C10: every category row the store held when a run connected is still    *)
(* there, unchanged (id, name, description, createdAt), during and after   *)
(* the run, whatever timestamp the run captured.                           *)
(***************************************************************************)
C10_CategoriesImmutable ==
    \A j \in 1..Len(before.categories) :
        /\ j <= Len(disk.categories)
        /\ j <= Len(conn.categories)
        /\ disk.categories[j] = before.categories[j]
        /\ conn.categories[j] = before.categories[j]

C10_Witness ==
    /\ JustCommitted
    /\ Len(before.categories) = 8
    /\ now > before.categories[1].createdAt
    /\ disk.categories = before.categories

====
